---- MODULE Spec2Model ----
(***************************************************************************)
(* Model of src/main.rs: the Vulkan bring-up sequence (App::create), the   *)
(* event-loop closure of main (render / destroy), physical-device          *)
(* selection and queue-family resolution.                                  *)
(*                                                                         *)
(* Driver handles are modelled by their life-cycle status ("null" is the   *)
(* Default::default() handle, "alive" a created one, "destroyed" one that  *)
(* was passed to its destroy call).  Every driver call that creates or     *)
(* destroys a handle, and both enumerate calls, are appended to `calls` in *)
(* the order the code issues them.                                         *)
(***************************************************************************)
EXTENDS Integers, Sequences, FiniteSets, TLC

(* ------------------------------ bounds --------------------------------- *)
MaxDevices == 2        \* physical devices in the device-selection specification
MaxPickFamilies == 1   \* queue families per device in that specification
MaxAppDevices == 1     \* physical devices in the application run
MaxAppFamilies == 1    \* queue families per device in the application run
MaxFamilies == 3       \* queue families in the resolver specification
MaxEvents == 2         \* events delivered to the event-loop closure
MaxAppMessages == 1    \* driver messages in the application run
MaxMessages == 2       \* driver messages in the callback specification

VARIABLES
    VALIDATION_ENABLED, \* main.rs:26, cfg!(debug_assertions): fixed per build
    pc,                 \* position of main / App::create
    instance,           \* App.instance
    messenger,          \* AppData.messenger
    surface,            \* AppData.surface
    device,             \* App.device
    physical_device,    \* AppData.physical_device: 0 = null, else position
    graphics_queue,     \* AppData.graphics_queue: <<>> = null, else <<family, slot>>
    devices,            \* what enumerate_physical_devices returned
    picked,             \* outcome of the last pick_physical_device call
    indices,            \* outcome of the last QueueFamilyIndices::get call
    error,              \* the error App::create returned, "" when none
    calls,              \* driver calls issued so far, in order
    destroying,         \* main's `destroying` flag
    control_flow,       \* *control_flow as the event loop sees it
    events,             \* events delivered to the closure so far
    renders,            \* number of App::render invocations
    destroys,           \* number of App::destroy invocations
    available_layers,   \* what enumerate_instance_layer_properties returned
    instance_info,      \* the InstanceCreateInfo given to create_instance
    device_info,        \* the DeviceCreateInfo given to create_device
    last_event,         \* the event the closure was last called with
    log                 \* what debug_callback wrote to the process log

vars == <<VALIDATION_ENABLED, pc, instance, messenger, surface, device,
          physical_device, graphics_queue, devices, picked, indices, error,
          calls, destroying, control_flow, events, renders, destroys,
          available_layers, instance_info, device_info, last_event, log>>

appData == <<messenger, surface, physical_device, graphics_queue>>
loopVars == <<destroying, control_flow, events, renders, destroys>>
createInfo == <<available_layers, instance_info, device_info>>
sinkVars == <<last_event, log>>

(* ------------------------- pure functions ------------------------------ *)
None == -1             \* Option::None for an Option<u32>

\* One entry of get_physical_device_queue_family_properties, together with
\* what get_physical_device_surface_support_khr answers for that family:
\* Ok(true), Ok(false) or Err.
QueueFamily == [graphics : BOOLEAN, present : {"yes", "no", "err"}]

RECURSIVE SeqsUpTo(_, _)
SeqsUpTo(S, n) ==
    IF n = 0 THEN {<<>>}
    ELSE LET shorter == SeqsUpTo(S, n - 1)
         IN  shorter \cup {Append(s, x) : s \in {t \in shorter : Len(t) = n - 1}, x \in S}

PhysicalDevice(maxFam) == [nvidia : BOOLEAN, families : SeqsUpTo(QueueFamily, maxFam)]

\* proparties.iter().position(|p| p.queue_flags.contains(GRAPHICS)).map(|i| i as u32)
\* Rust positions are 0-based, sequence positions 1-based.
RECURSIVE GraphicsPositionLast(_, _)
GraphicsPositionLast(props, i) ==
    IF i < 1 THEN None
    ELSE IF props[i].graphics THEN i - 1
    ELSE GraphicsPositionLast(props, i - 1)

RECURSIVE GraphicsPositionFrom(_, _)
GraphicsPositionFrom(props, i) ==
    IF i > Len(props) THEN None
    ELSE IF props[i].graphics THEN i - 1
    ELSE GraphicsPositionFrom(props, i + 1)

GraphicsPositionMutant(props) == GraphicsPositionLast(props, Len(props))

GraphicsPosition(props) == GraphicsPositionFrom(props, 1)

\* The `for (index, properties) in proparties.iter().enumerate()` loop:
\* a failing query leaves the function through `?`, a supporting family
\* sets `present` and breaks.
RECURSIVE PresentLoopFrom(_, _)
PresentLoopFrom(props, i) ==
    IF i > Len(props) THEN [err |-> FALSE, present |-> None]
    ELSE IF props[i].present = "err" THEN [err |-> TRUE, present |-> None]
    ELSE IF props[i].present = "yes" THEN [err |-> FALSE, present |-> i - 1]
    ELSE PresentLoopFrom(props, i + 1)

PresentLoop(props) == PresentLoopFrom(props, 1)

\* QueueFamilyIndices::get.  kind is "Ok", "SuitabilityError" (Missing
\* required queue families) or "VkError" (the error of the failing query).
QueueFamilyIndices_get_Mutant(props) ==
    LET graphics == GraphicsPosition(props)
        loop     == PresentLoop(props)
    IN  IF loop.err
        THEN [kind |-> "VkError", graphics |-> None, present |-> None]
        ELSE IF graphics # None \/ loop.present # None
        THEN [kind |-> "Ok", graphics |-> graphics, present |-> loop.present]
        ELSE [kind |-> "SuitabilityError", graphics |-> None, present |-> None]

QueueFamilyIndices_get(props) ==
    LET graphics == GraphicsPosition(props)
        loop     == PresentLoop(props)
    IN  IF loop.err
        THEN [kind |-> "VkError", graphics |-> None, present |-> None]
        ELSE IF graphics # None /\ loop.present # None
        THEN [kind |-> "Ok", graphics |-> graphics, present |-> loop.present]
        ELSE [kind |-> "SuitabilityError", graphics |-> None, present |-> None]

NoIndices == [kind |-> "", graphics |-> None, present |-> None]

\* check_physical_device: the name filter, then QueueFamilyIndices::get.
check_physical_device(dev) ==
    IF dev.nvidia
    THEN LET r == QueueFamilyIndices_get(dev.families)
         IN  IF r.kind = "Ok" THEN "Ok" ELSE r.kind
    ELSE "NotNvidia"

\* The loop of pick_physical_device over the enumerated devices: `examined`
\* collects the positions check_physical_device was called for.
RECURSIVE PickLoopNoReturn(_, _, _, _)
PickLoopNoReturn(devs, i, examined, chosen) ==
    IF i > Len(devs)
    THEN IF chosen = 0
         THEN [kind |-> "NoSuitableDevice", physical_device |-> 0, examined |-> examined]
         ELSE [kind |-> "Ok", physical_device |-> chosen, examined |-> examined]
    ELSE IF check_physical_device(devs[i]) = "Ok"
         THEN PickLoopNoReturn(devs, i + 1, Append(examined, i), i)
         ELSE PickLoopNoReturn(devs, i + 1, Append(examined, i), chosen)

RECURSIVE PickLoopPropagate(_, _, _)
PickLoopPropagate(devs, i, examined) ==
    IF i > Len(devs)
    THEN [kind |-> "NoSuitableDevice", physical_device |-> 0, examined |-> examined]
    ELSE IF check_physical_device(devs[i]) = "Ok"
         THEN [kind |-> "Ok", physical_device |-> i, examined |-> Append(examined, i)]
         ELSE IF check_physical_device(devs[i]) = "VkError"
         THEN [kind |-> "VkError", physical_device |-> 0, examined |-> Append(examined, i)]
         ELSE PickLoopPropagate(devs, i + 1, Append(examined, i))

RECURSIVE PickLoop(_, _, _)
PickLoop(devs, i, examined) ==
    IF i > Len(devs)
    THEN [kind |-> "NoSuitableDevice", physical_device |-> 0, examined |-> examined]
    ELSE IF check_physical_device(devs[i]) = "Ok"
         THEN [kind |-> "Ok", physical_device |-> i, examined |-> Append(examined, i)]
         ELSE PickLoop(devs, i + 1, Append(examined, i))

pick_devices_Mutant(devs) == PickLoopNoReturn(devs, 1, <<>>, 0)

pick_devices_SkipFirst(devs) == PickLoop(devs, 2, <<>>)

pick_devices(devs) == PickLoop(devs, 1, <<>>)

NotPicked == [kind |-> "", physical_device |-> 0, examined |-> <<>>]

\* The driver calls of App::destroy, in program order.
DestroyCallsMutant(validation) ==
    (IF validation THEN <<"destroy_debug_utils_messenger_ext">> ELSE <<>>)
    \o <<"destroy_device", "destroy_surface_khr", "destroy_instance">>

DestroyCallsAlwaysMessenger(validation) ==
    <<"destroy_debug_utils_messenger_ext", "destroy_surface_khr",
      "destroy_device", "destroy_instance">>

DestroyCalls(validation) ==
    (IF validation THEN <<"destroy_debug_utils_messenger_ext">> ELSE <<>>)
    \o <<"destroy_surface_khr", "destroy_device", "destroy_instance">>

\* main.rs:27
VALIDATION_LAYER == "VK_LAYER_KHRONOS_validation"

\* The layer names enumerate_instance_layer_properties can return.
LayerNames == {VALIDATION_LAYER}

NotEnumerated == [ok |-> FALSE, names |-> {}]

\* vk_window::get_required_instance_extensions(window), lines 180-183.
WindowExtensions == <<"VK_KHR_surface", "VK_KHR_xcb_surface">>

\* Line 195: diagnostics requested and the layer is not among the available ones.
validation_layer_missing_Mutant(validation, names) == FALSE

validation_layer_missing(validation, names) ==
    validation /\ VALIDATION_LAYER \notin names

\* Lines 180-187 and 199-217: the extensions, the layers and the pNext
\* chain of the InstanceCreateInfo.
InstanceCreateInfo_Mutant(validation) ==
    [enabled_extension_names |-> WindowExtensions \o <<"VK_EXT_debug_utils">>,
     enabled_layer_names     |-> IF validation THEN <<VALIDATION_LAYER>> ELSE <<>>,
     push_next_debug_info    |-> validation]

InstanceCreateInfo(validation) ==
    [enabled_extension_names |-> WindowExtensions
                                 \o (IF validation THEN <<"VK_EXT_debug_utils">> ELSE <<>>),
     enabled_layer_names     |-> IF validation THEN <<VALIDATION_LAYER>> ELSE <<>>,
     push_next_debug_info    |-> validation]

\* App::create, lines 46-50: the step that follows each step.
NextStep_Mutant(step) ==
    CASE step = "create"                -> "create_instance"
      [] step = "create_instance"       -> "pick_physical_device"
      [] step = "pick_physical_device"  -> "create_surface"
      [] step = "create_surface"        -> "create_logical_device"
      [] step = "create_logical_device" -> "running"

NextStep(step) ==
    CASE step = "create"                -> "create_instance"
      [] step = "create_instance"       -> "create_surface"
      [] step = "create_surface"        -> "pick_physical_device"
      [] step = "pick_physical_device"  -> "create_logical_device"
      [] step = "create_logical_device" -> "running"

(* ------------------------------ Init ----------------------------------- *)
InitCommon ==
    /\ instance = "null"
    /\ messenger = "null"
    /\ surface = "null"
    /\ device = "null"
    /\ physical_device = 0
    /\ graphics_queue = <<>>
    /\ picked = NotPicked
    /\ indices = NoIndices
    /\ error = ""
    /\ calls = <<>>
    /\ destroying = FALSE
    /\ control_flow = "Poll"
    /\ events = 0
    /\ renders = 0
    /\ destroys = 0
    /\ available_layers = NotEnumerated
    /\ instance_info = <<>>
    /\ device_info = <<>>
    /\ last_event = ""
    /\ log = <<>>

Init ==
    /\ VALIDATION_ENABLED \in BOOLEAN
    /\ pc = "create"
    /\ devices = <<>>
    /\ InitCommon

(* --------------------------- App::create ------------------------------- *)
Fail(e) ==
    /\ pc' = "create_failed"
    /\ error' = e

\* Lines 42-44: the loader and the entry points.
load_entry ==
    /\ pc = "create"
    /\ \E loaderOk \in BOOLEAN :
          IF loaderOk
          THEN /\ pc' = NextStep("create")
               /\ error' = error
          ELSE Fail("LoaderError")
    /\ UNCHANGED <<VALIDATION_ENABLED, instance, appData, device, devices,
                   picked, indices, calls, loopVars, createInfo, sinkVars>>

\* create_instance, called at line 46.  Inputs: whether the layer
\* enumeration succeeds and the layer names it returns, whether the driver
\* creates the instance and whether it creates the messenger.
create_instance ==
    /\ pc = "create_instance"
    /\ \E layersOk \in BOOLEAN, names \in SUBSET LayerNames,
          instanceOk \in BOOLEAN, messengerOk \in BOOLEAN :
          IF ~layersOk
          THEN /\ Fail("VkError")
               /\ calls' = calls \o <<"enumerate_instance_layer_properties">>
               /\ UNCHANGED <<instance, messenger, available_layers, instance_info>>
          ELSE IF validation_layer_missing(VALIDATION_ENABLED, names)
          THEN /\ Fail("ValidationLayerNotSupported")
               /\ calls' = calls \o <<"enumerate_instance_layer_properties">>
               /\ available_layers' = [ok |-> TRUE, names |-> names]
               /\ UNCHANGED <<instance, messenger, instance_info>>
          ELSE IF ~instanceOk
          THEN /\ Fail("VkError")
               /\ calls' = calls \o <<"enumerate_instance_layer_properties",
                                      "create_instance">>
               /\ available_layers' = [ok |-> TRUE, names |-> names]
               /\ instance_info' = <<InstanceCreateInfo(VALIDATION_ENABLED)>>
               /\ UNCHANGED <<instance, messenger>>
          ELSE IF VALIDATION_ENABLED /\ ~messengerOk
          THEN /\ Fail("VkError")
               /\ calls' = calls \o <<"enumerate_instance_layer_properties",
                                      "create_instance",
                                      "create_debug_utils_messenger_ext">>
               /\ available_layers' = [ok |-> TRUE, names |-> names]
               /\ instance_info' = <<InstanceCreateInfo(VALIDATION_ENABLED)>>
               /\ instance' = "alive"
               /\ UNCHANGED messenger
          ELSE /\ pc' = NextStep("create_instance")
               /\ error' = error
               /\ calls' = calls \o <<"enumerate_instance_layer_properties",
                                      "create_instance">>
                                 \o (IF VALIDATION_ENABLED
                                     THEN <<"create_debug_utils_messenger_ext">>
                                     ELSE <<>>)
               /\ available_layers' = [ok |-> TRUE, names |-> names]
               /\ instance_info' = <<InstanceCreateInfo(VALIDATION_ENABLED)>>
               /\ instance' = "alive"
               /\ messenger' = IF VALIDATION_ENABLED THEN "alive" ELSE messenger
    /\ UNCHANGED <<VALIDATION_ENABLED, surface, physical_device, graphics_queue,
                   device, devices, picked, indices, loopVars, device_info,
                   sinkVars>>

\* Line 47: data.surface = vk_window::create_surface(&instance, window)?
create_surface ==
    /\ pc = "create_surface"
    /\ calls' = calls \o <<"create_surface">>
    /\ \E surfaceOk \in BOOLEAN :
          IF surfaceOk
          THEN /\ surface' = "alive"
               /\ pc' = NextStep("create_surface")
               /\ error' = error
          ELSE /\ Fail("VkError")
               /\ UNCHANGED surface
    /\ UNCHANGED <<VALIDATION_ENABLED, instance, messenger, physical_device,
                   graphics_queue, device, devices, picked, indices, loopVars,
                   createInfo, sinkVars>>

\* pick_physical_device, called at line 48.  Inputs: whether the device
\* enumeration succeeds and the devices it returns (at most maxDev devices
\* of at most maxFam queue families each).
PickStep(maxDev, maxFam) ==
    /\ pc = "pick_physical_device"
    /\ calls' = calls \o <<"enumerate_physical_devices">>
    /\ \E enumOk \in BOOLEAN :
          IF ~enumOk
          THEN /\ Fail("VkError")
               /\ picked' = [kind |-> "VkError", physical_device |-> 0,
                             examined |-> <<>>]
               /\ UNCHANGED <<devices, physical_device>>
          ELSE \E n \in 0..maxDev : \E devs \in [1..n -> PhysicalDevice(maxFam)] :
                  LET r == pick_devices(devs)
                  IN  /\ devices' = devs
                      /\ picked' = r
                      /\ IF r.kind = "Ok"
                         THEN /\ physical_device' = r.physical_device
                              /\ pc' = NextStep("pick_physical_device")
                              /\ error' = error
                         ELSE /\ Fail(r.kind)
                              /\ UNCHANGED physical_device
    /\ UNCHANGED <<VALIDATION_ENABLED, instance, messenger, surface,
                   graphics_queue, device, indices, loopVars, createInfo,
                   sinkVars>>

pick_physical_device == PickStep(MaxAppDevices, MaxAppFamilies)

\* Lines 112-116 and 125: the queue-creation descriptors built from the
\* resolved indices.
QueueCreateInfos_Mutant(ind) ==
    <<[queue_family_index |-> ind.graphics, queue_priorities |-> <<"1.0">>]>>
    \o (IF ind.present # ind.graphics
        THEN <<[queue_family_index |-> ind.present, queue_priorities |-> <<"1.0">>]>>
        ELSE <<>>)

QueueCreateInfos(ind) ==
    <<[queue_family_index |-> ind.graphics, queue_priorities |-> <<"1.0">>]>>

\* Lines 118-129: the DeviceCreateInfo.
DeviceCreateInfo(validation, ind) ==
    [queue_create_infos  |-> QueueCreateInfos(ind),
     enabled_layer_names |-> IF validation THEN <<VALIDATION_LAYER>> ELSE <<>>]

\* create_logical_device, called at line 49; line 50 builds the App.
create_logical_device ==
    /\ pc = "create_logical_device"
    /\ LET r == QueueFamilyIndices_get(devices[physical_device].families)
       IN  /\ indices' = r
           /\ IF r.kind # "Ok"
              THEN /\ Fail(r.kind)
                   /\ UNCHANGED <<device, graphics_queue, calls, device_info>>
              ELSE /\ calls' = calls \o <<"create_device">>
                   /\ device_info' = <<DeviceCreateInfo(VALIDATION_ENABLED, r)>>
                   /\ \E deviceOk \in BOOLEAN :
                         IF deviceOk
                         THEN /\ device' = "alive"
                              /\ graphics_queue' = <<r.graphics, 0>>
                              /\ pc' = NextStep("create_logical_device")
                              /\ error' = error
                         ELSE /\ Fail("VkError")
                              /\ UNCHANGED <<device, graphics_queue>>
    /\ UNCHANGED <<VALIDATION_ENABLED, instance, messenger, surface,
                   physical_device, devices, picked, loopVars,
                   available_layers, instance_info, sinkVars>>

(* ------------------------ the event-loop closure ----------------------- *)
\* App::render, lines 54-56: returns Ok(()) and touches nothing.
render_Mutant ==
    /\ renders' = renders + 1
    /\ graphics_queue' = <<>>
    /\ UNCHANGED <<instance, messenger, surface, physical_device, device,
                   calls, destroys>>

render ==
    /\ renders' = renders + 1
    /\ UNCHANGED <<instance, appData, device, calls, destroys>>

\* App::destroy, lines 59-66.
destroy ==
    /\ calls' = calls \o DestroyCalls(VALIDATION_ENABLED)
    /\ messenger' = IF VALIDATION_ENABLED THEN "destroyed" ELSE messenger
    /\ surface' = "destroyed"
    /\ device' = "destroyed"
    /\ instance' = "destroyed"
    /\ destroys' = destroys + 1
    /\ UNCHANGED <<physical_device, graphics_queue, renders>>

\* Line 274: the guard of the MainEventsCleared arm.
render_arm_Mutant(event, flag) == event = "MainEventsCleared"

render_arm(event, flag) == event = "MainEventsCleared" /\ ~flag

\* The closure of lines 270-285, called by the event loop with one event.
\* ControlFlow::Exit is sticky in the event loop: the closure's assignment
\* of Poll at line 271 does not undo it, and the events still pending in the
\* iteration that requested the exit are delivered before the loop stops.
\* destroy() on handles that are already destroyed is undefined behaviour:
\* the process either goes on or dies in the driver.
main_event ==
    /\ pc = "running"
    /\ events < MaxEvents
    /\ events' = events + 1
    /\ \E event \in {"MainEventsCleared", "CloseRequested", "Other"} :
        /\ last_event' = event
        /\ IF render_arm(event, destroying)
          THEN /\ render
               /\ UNCHANGED <<destroying, control_flow, pc>>
          ELSE IF event = "CloseRequested"
          THEN /\ destroying' = TRUE
               /\ control_flow' = "Exit"
               /\ destroy
               /\ IF instance = "destroyed"
                  THEN pc' \in {"running", "crashed"}
                  ELSE pc' = pc
          ELSE UNCHANGED <<destroying, control_flow, pc, instance, appData,
                           device, calls, renders, destroys>>
    /\ UNCHANGED <<VALIDATION_ENABLED, devices, picked, indices, error,
                   createInfo, log>>

\* The event loop stops once the iteration that set ControlFlow::Exit ends.
loop_exit ==
    /\ pc = "running"
    /\ control_flow = "Exit"
    /\ pc' = "exited"
    /\ UNCHANGED <<VALIDATION_ENABLED, instance, appData, device, devices,
                   picked, indices, error, calls, loopVars, createInfo,
                   sinkVars>>

(* --------------------------- debug_callback ---------------------------- *)
\* vk::DebugUtilsMessageSeverityFlagsEXT: the bit of each severity tier.
VERBOSE == 1
INFO == 16
WARNING == 256
ERROR == 4096

Severities == {VERBOSE, INFO, WARNING, ERROR}

\* vk::DebugUtilsMessageTypeFlagsEXT
MessageTypes == {"GENERAL", "VALIDATION", "PERFORMANCE"}

\* Lines 237-248: the macro of the log crate the message goes to.
LogLevel(severity) ==
    IF severity >= ERROR THEN "error"
    ELSE IF severity >= WARNING THEN "warn"
    ELSE IF severity >= INFO THEN "debug"
    ELSE "trace"

\* debug_callback, lines 228-251, called by the driver while a messenger is
\* registered and the process is inside App::create or the event loop.  It
\* can arrive inside any driver call; as it touches nothing but the log, it
\* is placed between the steps.
Callback(severities, types, maxMessages) ==
    /\ messenger = "alive"
    /\ pc \in {"create_surface", "pick_physical_device",
               "create_logical_device", "running"}
    /\ Len(log) < maxMessages
    /\ \E severity \in severities, type_ \in types :
          log' = Append(log, [level |-> LogLevel(severity), type_ |-> type_,
                              severity |-> severity])
    /\ UNCHANGED <<VALIDATION_ENABLED, pc, instance, appData, device, devices,
                   picked, indices, error, calls, loopVars, createInfo,
                   last_event>>

debug_callback == Callback({WARNING}, {"VALIDATION"}, MaxAppMessages)

Next ==
    \/ load_entry
    \/ create_instance
    \/ create_surface
    \/ pick_physical_device
    \/ create_logical_device
    \/ main_event
    \/ loop_exit
    \/ debug_callback

Spec == Init /\ [][Next]_vars

(* ------------- specification of QueueFamilyIndices::get ---------------- *)
\* The resolver applied to every family list of up to MaxFamilies entries.
InitGet ==
    /\ VALIDATION_ENABLED = FALSE
    /\ pc = "get"
    /\ devices \in {<<d>> : d \in PhysicalDevice(MaxFamilies)}
    /\ InitCommon

get ==
    /\ pc = "get"
    /\ indices' = QueueFamilyIndices_get(devices[1].families)
    /\ pc' = "got"
    /\ UNCHANGED <<VALIDATION_ENABLED, instance, appData, device, devices,
                   picked, error, calls, loopVars, createInfo, sinkVars>>

NextGet == get

SpecGet == InitGet /\ [][NextGet]_vars

(* -------------- specification of pick_physical_device ------------------ *)
\* pick_physical_device applied, in a release build whose instance and
\* surface were created, to every enumeration of up to MaxDevices devices.
InitPick ==
    /\ VALIDATION_ENABLED = FALSE
    /\ pc = "pick_physical_device"
    /\ instance = "alive"
    /\ messenger = "null"
    /\ surface = "alive"
    /\ device = "null"
    /\ physical_device = 0
    /\ graphics_queue = <<>>
    /\ devices = <<>>
    /\ picked = NotPicked
    /\ indices = NoIndices
    /\ error = ""
    /\ calls = <<"enumerate_instance_layer_properties", "create_instance",
                 "create_surface">>
    /\ destroying = FALSE
    /\ control_flow = "Poll"
    /\ events = 0
    /\ renders = 0
    /\ destroys = 0
    /\ available_layers = [ok |-> TRUE, names |-> {}]
    /\ instance_info = <<InstanceCreateInfo(FALSE)>>
    /\ device_info = <<>>
    /\ last_event = ""
    /\ log = <<>>

pick == PickStep(MaxDevices, MaxPickFamilies)

NextPick == pick

SpecPick == InitPick /\ [][NextPick]_vars

(* ------------- specification of create_logical_device ----------------- *)
\* The driver calls of a create() that got as far as selecting a device.
CallsUntilPick(validation) ==
    <<"enumerate_instance_layer_properties", "create_instance">>
    \o (IF validation THEN <<"create_debug_utils_messenger_ext">> ELSE <<>>)
    \o <<"create_surface", "enumerate_physical_devices">>

\* create_logical_device applied after pick_physical_device selected the
\* only enumerated device, for every suitable device of up to MaxFamilies
\* queue families.
InitDevice ==
    /\ VALIDATION_ENABLED \in BOOLEAN
    /\ pc = "create_logical_device"
    /\ instance = "alive"
    /\ messenger = (IF VALIDATION_ENABLED THEN "alive" ELSE "null")
    /\ surface = "alive"
    /\ device = "null"
    /\ devices \in {<<d>> : d \in {x \in PhysicalDevice(MaxFamilies) :
                                       check_physical_device(x) = "Ok"}}
    /\ physical_device = 1
    /\ graphics_queue = <<>>
    /\ picked = pick_devices(devices)
    /\ indices = NoIndices
    /\ error = ""
    /\ calls = CallsUntilPick(VALIDATION_ENABLED)
    /\ destroying = FALSE
    /\ control_flow = "Poll"
    /\ events = 0
    /\ renders = 0
    /\ destroys = 0
    /\ available_layers = [ok |-> TRUE, names |-> {VALIDATION_LAYER}]
    /\ instance_info = <<InstanceCreateInfo(VALIDATION_ENABLED)>>
    /\ device_info = <<>>
    /\ last_event = ""
    /\ log = <<>>

NextDevice == create_logical_device

SpecDevice == InitDevice /\ [][NextDevice]_vars

(* ------------------ specification of debug_callback -------------------- *)
\* A debug build after a successful create() on one suitable device with a
\* single queue family; the driver then delivers up to MaxMessages messages
\* of any severity and type.
InitCallback ==
    /\ VALIDATION_ENABLED = TRUE
    /\ pc = "running"
    /\ instance = "alive"
    /\ messenger = "alive"
    /\ surface = "alive"
    /\ device = "alive"
    /\ devices = <<[nvidia |-> TRUE,
                    families |-> <<[graphics |-> TRUE, present |-> "yes"]>>]>>
    /\ physical_device = 1
    /\ graphics_queue = <<0, 0>>
    /\ picked = pick_devices(devices)
    /\ indices = QueueFamilyIndices_get(devices[1].families)
    /\ error = ""
    /\ calls = CallsUntilPick(TRUE) \o <<"create_device">>
    /\ destroying = FALSE
    /\ control_flow = "Poll"
    /\ events = 0
    /\ renders = 0
    /\ destroys = 0
    /\ available_layers = [ok |-> TRUE, names |-> {VALIDATION_LAYER}]
    /\ instance_info = <<InstanceCreateInfo(TRUE)>>
    /\ device_info = <<DeviceCreateInfo(TRUE, indices)>>
    /\ last_event = ""
    /\ log = <<>>

callback == Callback(Severities, MessageTypes, MaxMessages)

NextCallback == callback

SpecCallback == InitCallback /\ [][NextCallback]_vars

(* ============================== claims ================================= *)
\* Position of the first occurrence of driver call c in `calls`, 0 if none.
FirstPos(c) ==
    IF \E i \in 1..Len(calls) : calls[i] = c
    THEN CHOOSE i \in 1..Len(calls) :
            calls[i] = c /\ \A j \in 1..(i - 1) : calls[j] # c
    ELSE 0

Handles == {"instance", "messenger", "surface", "device"}

CreateCallOf(h) ==
    CASE h = "instance"  -> "create_instance"
      [] h = "messenger" -> "create_debug_utils_messenger_ext"
      [] h = "surface"   -> "create_surface"
      [] h = "device"    -> "create_device"

DestroyCallOf(h) ==
    CASE h = "instance"  -> "destroy_instance"
      [] h = "messenger" -> "destroy_debug_utils_messenger_ext"
      [] h = "surface"   -> "destroy_surface_khr"
      [] h = "device"    -> "destroy_device"

IsDestroyCall(c) == \E h \in Handles : c = DestroyCallOf(h)

\* Calls issued through the instance handle (self.instance / instance).
InstanceCalls ==
    {"create_debug_utils_messenger_ext", "create_surface",
     "enumerate_physical_devices", "create_device",
     "destroy_debug_utils_messenger_ext", "destroy_surface_khr",
     "destroy_instance"}

\* C1: every execution of App::destroy issues its destroy calls in the order
\* messenger (only when diagnostics are enabled), surface, device, instance:
\* the destroy calls in the log are that block, once per destroy() execution.
C1_DestroyOrderFixed ==
    LET order == IF VALIDATION_ENABLED
                 THEN <<"destroy_debug_utils_messenger_ext", "destroy_surface_khr",
                        "destroy_device", "destroy_instance">>
                 ELSE <<"destroy_surface_khr", "destroy_device", "destroy_instance">>
        seg   == SelectSeq(calls, IsDestroyCall)
        n     == Len(order)
    IN  /\ Len(seg) = destroys * n
        /\ \A i \in 1..Len(seg) : seg[i] = order[((i - 1) % n) + 1]

C1_Witness ==
    /\ VALIDATION_ENABLED
    /\ destroys = 1
    /\ Len(SelectSeq(calls, IsDestroyCall)) = 4

\* C2: destruction is in strict reverse-creation order: of two handles that
\* create() created, the one created later is destroyed earlier.
C2_ReverseCreationOrder ==
    \A a, b \in Handles :
        ( /\ FirstPos(DestroyCallOf(a)) # 0
          /\ FirstPos(DestroyCallOf(b)) # 0
          /\ FirstPos(CreateCallOf(a)) # 0
          /\ FirstPos(CreateCallOf(b)) # 0
          /\ FirstPos(CreateCallOf(a)) < FirstPos(CreateCallOf(b)) )
        => FirstPos(DestroyCallOf(b)) < FirstPos(DestroyCallOf(a))

\* C3: in every teardown the device is destroyed before the surface, and the
\* surface before the instance.
C3_DeviceBeforeSurface ==
    destroys > 0 =>
        /\ FirstPos("destroy_device") < FirstPos("destroy_surface_khr")
        /\ FirstPos("destroy_surface_khr") < FirstPos("destroy_instance")

\* C4: the instance is destroyed last: messenger (if created), surface and
\* device are destroyed strictly before it, and no call is made through the
\* instance after its destruction.
C4_InstanceDestroyedLast ==
    LET p == FirstPos("destroy_instance")
    IN  p # 0 =>
          /\ \A h \in Handles \ {"instance"} :
                FirstPos(CreateCallOf(h)) # 0 =>
                   /\ FirstPos(DestroyCallOf(h)) # 0
                   /\ FirstPos(DestroyCallOf(h)) < p
          /\ \A i \in (p + 1)..Len(calls) : calls[i] \notin InstanceCalls

\* C5: whatever events are delivered to the closure, App::destroy is invoked
\* at most once.
C5_DestroyAtMostOnce == destroys <= 1

\* C6: App::create is all-or-nothing: a returned App has every handle set,
\* and a failed create leaves no handle of that call alive.
C6_CreateAllOrNothing ==
    /\ (pc = "running" /\ destroys = 0) =>
          /\ instance = "alive"
          /\ (VALIDATION_ENABLED => messenger = "alive")
          /\ surface = "alive"
          /\ physical_device # 0
          /\ device = "alive"
          /\ graphics_queue # <<>>
    /\ pc = "create_failed" =>
          /\ error # ""
          /\ instance # "alive"
          /\ messenger # "alive"
          /\ surface # "alive"
          /\ device # "alive"

\* C7: pick_physical_device is first-fit: the stored device is the
\* lowest-position candidate passing check_physical_device, and no
\* candidate after it was examined.
C7_FirstFit ==
    picked.kind = "Ok" =>
        /\ physical_device = picked.physical_device
        /\ physical_device \in 1..Len(devices)
        /\ check_physical_device(devices[physical_device]) = "Ok"
        /\ \A j \in 1..(physical_device - 1) :
              check_physical_device(devices[j]) # "Ok"
        /\ picked.examined = [i \in 1..physical_device |-> i]

C7_Witness ==
    /\ picked.kind = "Ok"
    /\ physical_device = 1
    /\ Len(devices) = 2
    /\ check_physical_device(devices[2]) = "Ok"

\* C8: once the devices are enumerated, pick_physical_device fails with the
\* no-suitable-device error exactly when no candidate passes the check (so
\* with zero devices), and succeeds when at least one passes.
C8_NoSuitableDevice ==
    picked.kind \in {"Ok", "NoSuitableDevice"} =>
        LET somePasses == \E i \in 1..Len(devices) :
                             check_physical_device(devices[i]) = "Ok"
        IN  /\ (picked.kind = "NoSuitableDevice") <=> ~somePasses
            /\ (picked.kind = "Ok") <=> somePasses
            /\ picked.kind = "NoSuitableDevice" =>
                  /\ pc = "create_failed"
                  /\ error = "NoSuitableDevice"
                  /\ physical_device = 0
                  /\ picked.examined = [i \in 1..Len(devices) |-> i]

C8_Witness ==
    /\ picked.kind = "NoSuitableDevice"
    /\ devices = <<>>
    /\ error = "NoSuitableDevice"

\* The families of the device the resolver specification applies get to.
GetFamilies == devices[1].families

NoGraphicsFamily == \A i \in 1..Len(GetFamilies) : ~GetFamilies[i].graphics

NoPresentFamily == \A i \in 1..Len(GetFamilies) : GetFamilies[i].present # "yes"

\* A surface-support query fails before any family reported support.
QueryFailsFirst ==
    \E i \in 1..Len(GetFamilies) :
        /\ GetFamilies[i].present = "err"
        /\ \A j \in 1..(i - 1) : GetFamilies[j].present = "no"

\* C9 (as claimed): get returns the missing-queue-families error if and only
\* if no family has the graphics flag or no family reports present support.
C9_NotFoundIff ==
    pc = "got" =>
        ((indices.kind = "SuitabilityError") <=> (NoGraphicsFamily \/ NoPresentFamily))

\* C9 (amended): get returns the error of a surface-support query that fails
\* before any family reported support; otherwise it returns the
\* missing-queue-families error if and only if no family has the graphics
\* flag or no family reports present support; the empty list gives the
\* missing-queue-families error.
C9_NotFoundIffNoQueryError ==
    pc = "got" =>
        /\ indices.kind \in {"Ok", "SuitabilityError", "VkError"}
        /\ (indices.kind = "VkError") <=> QueryFailsFirst
        /\ (indices.kind = "SuitabilityError")
              <=> (~QueryFailsFirst /\ (NoGraphicsFamily \/ NoPresentFamily))
        /\ GetFamilies = <<>> => indices.kind = "SuitabilityError"

C9_Witness ==
    /\ pc = "got"
    /\ indices.kind = "SuitabilityError"
    /\ Len(GetFamilies) = 2
    /\ ~NoGraphicsFamily
    /\ NoPresentFamily

\* C10: when get succeeds, graphics is the smallest index with the graphics
\* flag and present the smallest index reporting surface support, searched
\* independently: graphics only at 2 and present only at 0 give {2, 0}; one
\* family k that is both gives {k, k}.
C10_SmallestIndices ==
    pc = "got" =>
        /\ indices.kind = "Ok" =>
              /\ indices.graphics \in 0..(Len(GetFamilies) - 1)
              /\ GetFamilies[indices.graphics + 1].graphics
              /\ \A j \in 1..indices.graphics : ~GetFamilies[j].graphics
              /\ indices.present \in 0..(Len(GetFamilies) - 1)
              /\ GetFamilies[indices.present + 1].present = "yes"
              /\ \A j \in 1..indices.present : GetFamilies[j].present # "yes"
        /\ ( /\ Len(GetFamilies) = 3
             /\ \A i \in 1..3 : GetFamilies[i].graphics <=> (i = 3)
             /\ \A i \in 1..3 : GetFamilies[i].present = (IF i = 1 THEN "yes" ELSE "no") )
           => indices = [kind |-> "Ok", graphics |-> 2, present |-> 0]
        /\ \A k \in 1..Len(GetFamilies) :
              ( /\ \A i \in 1..Len(GetFamilies) : GetFamilies[i].graphics <=> (i = k)
                /\ \A i \in 1..Len(GetFamilies) :
                      GetFamilies[i].present = (IF i = k THEN "yes" ELSE "no") )
              => indices = [kind |-> "Ok", graphics |-> k - 1, present |-> k - 1]

C10_Witness ==
    /\ pc = "got"
    /\ indices = [kind |-> "Ok", graphics |-> 2, present |-> 0]
    /\ \A i \in 1..Len(GetFamilies) : GetFamilies[i].graphics <=> (i = 3)
    /\ \A i \in 1..Len(GetFamilies) :
          GetFamilies[i].present = (IF i = 1 THEN "yes" ELSE "no")

InCalls(c) == \E i \in 1..Len(calls) : calls[i] = c

Count(c) == Cardinality({i \in 1..Len(calls) : calls[i] = c})

\* C11: with diagnostics enabled and the validation layer absent from the
\* enumerated layers, create_instance fails with the configuration error
\* before any instance is created: neither the instance-creation call nor
\* the messenger-creation call is made.
C11_LayerCheckBeforeInstance ==
    ( /\ VALIDATION_ENABLED
      /\ available_layers.ok
      /\ VALIDATION_LAYER \notin available_layers.names )
    => /\ pc = "create_failed"
       /\ error = "ValidationLayerNotSupported"
       /\ instance = "null"
       /\ messenger = "null"
       /\ instance_info = <<>>
       /\ ~InCalls("create_instance")
       /\ ~InCalls("create_debug_utils_messenger_ext")

C11_Witness ==
    /\ VALIDATION_ENABLED
    /\ available_layers = [ok |-> TRUE, names |-> {}]
    /\ pc = "create_failed"
    /\ calls = <<"enumerate_instance_layer_properties">>

\* C12: with diagnostics disabled no messenger is ever created, the instance
\* is created without the diagnostics extension and without the validation
\* layer, and destroy() destroys no messenger.
C12_NoDiagnosticsInRelease ==
    ~VALIDATION_ENABLED =>
        /\ messenger = "null"
        /\ ~InCalls("create_debug_utils_messenger_ext")
        /\ ~InCalls("destroy_debug_utils_messenger_ext")
        /\ instance_info # <<>> =>
              /\ \A i \in 1..Len(instance_info[1].enabled_extension_names) :
                    instance_info[1].enabled_extension_names[i] # "VK_EXT_debug_utils"
              /\ instance_info[1].enabled_layer_names = <<>>

C12_Witness ==
    /\ ~VALIDATION_ENABLED
    /\ instance_info # <<>>
    /\ destroys = 1
    /\ pc = "exited"

\* C13: App::render is invoked only while the app is Ready: not before
\* create() returned, and never once a CloseRequested event started the
\* destruction, even when MainEventsCleared is delivered afterwards.
C13_RenderOnlyWhileReady ==
    [][renders' # renders =>
          /\ pc = "running"
          /\ ~destroying
          /\ destroys = 0
          /\ instance = "alive"
          /\ device = "alive"
          /\ last_event' = "MainEventsCleared"]_vars

C13_Witness ==
    /\ destroying
    /\ last_event = "MainEventsCleared"
    /\ destroys = 1
    /\ renders = 0
    /\ events = 2

\* The driver calls of a complete App::create, in the claimed order.
ExpectedCreateCalls ==
    <<"enumerate_instance_layer_properties", "create_instance">>
    \o (IF VALIDATION_ENABLED THEN <<"create_debug_utils_messenger_ext">> ELSE <<>>)
    \o <<"create_surface", "enumerate_physical_devices", "create_device">>

\* C14: App::create runs instance creation, messenger registration (when
\* diagnostics are enabled), surface creation, device selection and
\* logical-device creation in that order, each only if every earlier step
\* succeeded.
C14_CreateOrder ==
    LET made == SelectSeq(calls, LAMBDA c : ~IsDestroyCall(c))
    IN  /\ Len(made) <= Len(ExpectedCreateCalls)
        /\ \A i \in 1..Len(made) : made[i] = ExpectedCreateCalls[i]
        /\ InCalls("create_instance") => available_layers.ok
        /\ InCalls("create_debug_utils_messenger_ext") => instance # "null"
        /\ InCalls("create_surface") =>
              /\ instance # "null"
              /\ VALIDATION_ENABLED => messenger # "null"
        /\ InCalls("enumerate_physical_devices") => surface # "null"
        /\ InCalls("create_device") =>
              /\ picked.kind = "Ok"
              /\ physical_device # 0

C14_Witness ==
    /\ VALIDATION_ENABLED
    /\ pc = "running"
    /\ destroys = 0
    /\ calls = ExpectedCreateCalls

\* C15: a candidate failing check_physical_device, whatever the error, is
\* skipped and the next one is examined; pick_physical_device itself fails
\* only when the enumeration fails or after every candidate was examined
\* and none passed.
C15_FailuresSkipped ==
    picked.kind # "" =>
        /\ picked.kind \in {"Ok", "NoSuitableDevice", "VkError"}
        /\ picked.kind = "VkError" =>
              /\ devices = <<>>
              /\ picked.examined = <<>>
        /\ picked.kind = "NoSuitableDevice" =>
              picked.examined = [i \in 1..Len(devices) |-> i]
        /\ \A k \in 1..Len(devices) :
              ( /\ check_physical_device(devices[k]) = "Ok"
                /\ \A j \in 1..(k - 1) : check_physical_device(devices[j]) # "Ok" )
              => /\ picked.kind = "Ok"
                 /\ physical_device = k

C15_Witness ==
    /\ Len(devices) = 2
    /\ check_physical_device(devices[1]) = "VkError"
    /\ picked.kind = "Ok"
    /\ physical_device = 2

\* C16: create_logical_device builds exactly one queue-creation descriptor,
\* for the first graphics family of the selected device, and stores the
\* queue of slot 0 of that family; the present family gets no descriptor
\* even when it differs.
C16_OneGraphicsQueue ==
    pc # "create_logical_device" =>
        LET fams == devices[physical_device].families
            g    == CHOOSE i \in 1..Len(fams) :
                       fams[i].graphics /\ \A j \in 1..(i - 1) : ~fams[j].graphics
        IN  /\ device_info # <<>>
            /\ Len(device_info[1].queue_create_infos) = 1
            /\ device_info[1].queue_create_infos[1].queue_family_index = g - 1
            /\ device_info[1].queue_create_infos[1].queue_priorities = <<"1.0">>
            /\ pc = "running" => graphics_queue = <<g - 1, 0>>

C16_Witness ==
    /\ pc = "running"
    /\ indices.kind = "Ok"
    /\ indices.present # indices.graphics
    /\ graphics_queue = <<indices.graphics, 0>>

\* The level of the process log that corresponds to a severity tier.
CorrespondingLevel(severity) ==
    CASE severity = ERROR   -> "error"
      [] severity = WARNING -> "warn"
      [] severity = INFO    -> "info"
      [] severity = VERBOSE -> "trace"

\* C17: debug_callback logs every message at the level corresponding to its
\* severity tier (error, warn, info, trace), distinct tiers at distinct levels.
C17_SeverityToLevel ==
    /\ \A i \in 1..Len(log) : log[i].level = CorrespondingLevel(log[i].severity)
    /\ \A i, j \in 1..Len(log) :
          log[i].severity # log[j].severity => log[i].level # log[j].level

\* C18: between a successful create() and destroy() no step changes the
\* application state or a handle: render() changes nothing, and the
\* diagnostics callback, wherever it arrives, changes nothing but the log.
C18_StateReadOnly ==
    [][ /\ (pc = "running" /\ destroys = 0 /\ destroys' = 0)
              => UNCHANGED <<instance, device, appData>>
        /\ log' # log
              => UNCHANGED <<instance, device, appData, calls, pc, loopVars>> ]_vars

C18_Witness ==
    /\ pc = "running"
    /\ destroys = 0
    /\ renders >= 1
    /\ Len(log) >= 1

\* C19: after a successful create() and one destroy(), every handle create()
\* created was destroyed exactly once and no other handle was destroyed: the
\* messenger if and only if it was created, instance, surface and device once.
C19_DestroyedExactlyOnce ==
    destroys = 1 =>
        /\ \A h \in Handles : Count(DestroyCallOf(h)) = Count(CreateCallOf(h))
        /\ \A h \in Handles \ {"messenger"} : Count(DestroyCallOf(h)) = 1
        /\ Count("destroy_debug_utils_messenger_ext")
              = (IF messenger = "null" THEN 0 ELSE 1)
        /\ instance = "destroyed"
        /\ surface = "destroyed"
        /\ device = "destroyed"
        /\ messenger \in {"null", "destroyed"}

C19_Witness ==
    /\ destroys = 1
    /\ VALIDATION_ENABLED
    /\ messenger = "destroyed"
    /\ Count("destroy_debug_utils_messenger_ext") = 1

====
